---- MODULE Spec2Model ----
(***************************************************************************)
(* Session lifecycle manager of auth-js (SpecAuthClient, src/src/client.ts) *)
(* as a state machine.  One action per public operation, per continuation  *)
(* of an awaited transport or storage call, and per timer firing.          *)
(*                                                                         *)
(* Encoding of JavaScript values:                                          *)
(*   - an absent / undefined / null field is the falsy value of its type   *)
(*     ("" for strings, 0 for numbers, NoUser for a user), which is what   *)
(*     every truthiness test of the source distinguishes;                  *)
(*   - a null session is NoSession (isNull = TRUE);                        *)
(*   - the storage key holds NoItem, a malformed string, or the JSON text  *)
(*     of a PersistedSessions document.                                    *)
(* The store applies getItem/setItem/removeItem in the order they are      *)
(* issued; what is asynchronous is the continuation of the caller.         *)
(***************************************************************************)
EXTENDS Integers, Sequences, FiniteSets, TLC

VARIABLES
    phase,               \* "Uninitialized" before the constructor ran, then "Constructed"
    autoRefreshToken,    \* option autoRefreshToken
    persistSessions,     \* option persistSessions && isBrowser()
    recoverSessions,     \* option recoverSessions
    syncStore,           \* TRUE: getItem returns a string; FALSE: it returns a promise
    setItemFails,        \* TRUE: setItem of the store rejects (quota exceeded, store gone)
    currentSession,      \* this.currentSession
    currentUser,         \* this.currentUser
    refreshTokenTimer,   \* this.refreshTokenTimer: 0 (undefined) or the id of the last timer created
    timers,              \* timeouts of the host that are still pending: records [id, fireAt]
    loading,             \* this.loading
    stateChangeEmitters, \* this.stateChangeEmitters, in insertion order
    store,               \* what the durable store holds under STORAGE_KEY
    persisting,          \* _persistSessions calls waiting for their read, oldest first: [val, session]
    tasks,               \* operations suspended on an awaited transport or storage call
    nowMs,               \* Date.now()
    stimuli,             \* what the host did so far: public calls and clock advances
    emitted,             \* events broadcast by the last step, in order: [event, user]
    ret,                 \* result returned to a caller by the last step
    initialLoads,        \* how often INITIAL_STATE_LOADED was broadcast (capped)
    signedOut,           \* history: signOut was invoked and nothing was saved since
    unhandled            \* an exception or rejection escaped to the host

vars == <<phase, autoRefreshToken, persistSessions, recoverSessions, syncStore, setItemFails,
          currentSession, currentUser, refreshTokenTimer, timers, loading,
          stateChangeEmitters, store, persisting, tasks, nowMs, stimuli,
          emitted, ret, initialLoads, signedOut, unhandled>>

-----------------------------------------------------------------------------
(* Bounds of the model *)

MaxStimuli == 2      \* what the host does in one run: public calls and clock advances

StartMs == 100000    \* Date.now() when the model starts

TickSteps == {500, 1000}   \* one clock advance, in milliseconds

Addresses == {"0xA", "0xB"}

-----------------------------------------------------------------------------
(* Data model: src/src/lib/types.ts *)

NoUser == [id |-> "", ver |-> 0]

User(a, v) == [id |-> a, ver |-> v]

NoSession ==
    [isNull |-> TRUE, accessToken |-> "", refreshToken |-> "", expiresAt |-> 0, user |-> NoUser]

Session(at, rt, exp, u) ==
    [isNull |-> FALSE, accessToken |-> at, refreshToken |-> rt, expiresAt |-> exp, user |-> u]

\* The refresh token of an account (the server knows which account a token belongs to).
RefreshTokenOf(a) == IF a = "0xA" THEN "rtA" ELSE "rtB"

AddressOf(rt) == IF rt = "rtA" THEN "0xA" ELSE "0xB"

EmptySessions == [a \in Addresses |-> NoSession]

\* { sessions: {}, activeAddress: '' }
EmptyStore == [sessions |-> EmptySessions, activeAddress |-> ""]

NoItem == [kind |-> "none", doc |-> EmptyStore]

Malformed == [kind |-> "malformed", doc |-> EmptyStore]

SIGNED_IN == "SIGNED_IN"

SIGNED_OUT == "SIGNED_OUT"

TOKEN_REFRESHED == "TOKEN_REFRESHED"

INITIAL_STATE_LOADED == "INITIAL_STATE_LOADED"

isBrowser == TRUE

-----------------------------------------------------------------------------
(* Clock: src/src/lib/constants.ts *)

\* Math.round(Date.now() / 1000)
TimeNow(ms) == (ms + 500) \div 1000

expiresAt(ms, expiresIn) == TimeNow(ms) + expiresIn

-----------------------------------------------------------------------------
(* Storage adapter *)

\* JSON.stringify(value) as written by _setToStorage
Stringify(doc) == [kind |-> "json", doc |-> doc]

\* _parseStorageJSON: null for an absent item and for malformed JSON
_parseStorageJSON(json) ==
    IF json.kind = "json" THEN [isNull |-> FALSE, doc |-> json.doc]
    ELSE [isNull |-> TRUE, doc |-> EmptyStore]

\* _getFromStorage: the item is read when the call is made
_getFromStorage(st) ==
    IF isBrowser THEN _parseStorageJSON(st) ELSE _parseStorageJSON(NoItem)

\* _getFromStorageSync: a promise returned by an asynchronous store is not a string
_getFromStorageSync(st, sync) ==
    IF isBrowser /\ sync THEN _parseStorageJSON(st) ELSE _parseStorageJSON(NoItem)

\* _getPersistedSessions: the parsed document, or an empty one
_getPersistedSessions(val) == IF val.isNull THEN EmptyStore ELSE val.doc

-----------------------------------------------------------------------------
(* The manager's mutable core as one record, so that save, remove and the   *)
(* scheduler compose inside one handler.                                    *)

Core ==
    [currentSession |-> currentSession, currentUser |-> currentUser,
     refreshTokenTimer |-> refreshTokenTimer, timers |-> timers,
     loading |-> loading, store |-> store, persisting |-> persisting]

Commit(M) ==
    /\ currentSession' = M.currentSession
    /\ currentUser' = M.currentUser
    /\ refreshTokenTimer' = M.refreshTokenTimer
    /\ timers' = M.timers
    /\ loading' = M.loading
    /\ store' = M.store
    /\ persisting' = M.persisting

\* clearTimeout(handle): cancels the pending timeout with that id, if any
clearTimeout(ts, handle) == {t \in ts : t.id # handle}

\* setTimeout: a fresh id
FreshTimerId(ts, handle) ==
    CHOOSE i \in 1..(Cardinality(ts) + 2) : i # handle /\ \A t \in ts : t.id # i

\* A scheduler that arms a timer without cancelling the one armed before.
_startAutoRefreshToken_NoCancel(M, value, auto, ms) ==
    IF value <= 0 \/ ~auto
    THEN M
    ELSE LET id == FreshTimerId(M.timers, M.refreshTokenTimer)
         IN  [M EXCEPT !.timers = M.timers \cup {[id |-> id, fireAt |-> ms + value]},
                       !.refreshTokenTimer = id]

\* _startAutoRefreshToken(value), value in milliseconds
_startAutoRefreshToken(M, value, auto, ms) ==
    LET cleared == IF M.refreshTokenTimer # 0
                   THEN clearTimeout(M.timers, M.refreshTokenTimer)
                   ELSE M.timers
    IN  IF value <= 0 \/ ~auto
        THEN [M EXCEPT !.timers = cleared]
        ELSE LET id == FreshTimerId(cleared, M.refreshTokenTimer)
             IN  [M EXCEPT !.timers = cleared \cup {[id |-> id, fireAt |-> ms + value]},
                           !.refreshTokenTimer = id]

\* A save that subtracts half a second whatever the remaining lifetime is.
RefreshDelayMs_HalfSecondOnly(expiresIn) == expiresIn * 1000 - 500

\* (expiresIn - refreshDurationBeforeExpires) * 1000
RefreshDelayMs(expiresIn) ==
    IF expiresIn > 60 THEN expiresIn * 1000 - 60 * 1000 ELSE expiresIn * 1000 - 500

\* _saveSession(session)
_saveSession(M, session, auto, persist, ms) ==
    LET M1 == [M EXCEPT !.loading = FALSE,
                        !.currentSession = session,
                        !.currentUser = session.user]
        M2 == IF session.expiresAt # 0
              THEN _startAutoRefreshToken(
                       M1, RefreshDelayMs(session.expiresAt - TimeNow(ms)), auto, ms)
              ELSE M1
    IN  IF isBrowser /\ persist
        THEN [M2 EXCEPT !.persisting =
                 Append(@, [val |-> _getFromStorage(M2.store), session |-> session])]
        ELSE M2

\* A removal that forgets the user.
_removeSessions_KeepsUser(M) ==
    [M EXCEPT !.currentSession = NoSession,
              !.timers = IF M.refreshTokenTimer # 0
                         THEN clearTimeout(@, M.refreshTokenTimer) ELSE @,
              !.store = IF isBrowser THEN NoItem ELSE @]

\* _removeSessions()
_removeSessions(M) ==
    [M EXCEPT !.currentSession = NoSession,
              !.currentUser = NoUser,
              !.timers = IF M.refreshTokenTimer # 0
                         THEN clearTimeout(@, M.refreshTokenTimer) ELSE @,
              !.store = IF isBrowser THEN NoItem ELSE @]

-----------------------------------------------------------------------------
(* Subscriber registry *)

Subscription(id, kind) == [id |-> id, kind |-> kind]

\* What a registered callback does when it is invoked.
CallbackKinds == {"ok", "throws"}

\* _notifyAllSubscribers(event): TRUE when a callback threw out of the forEach
Throws(subs) == \E i \in 1..Len(subs) : subs[i].kind = "throws"

\* The identifiers whose callback the forEach invokes, in insertion order: an exception
\* of a callback ends the loop.
Invoked(subs) ==
    LET last == IF Throws(subs)
                THEN CHOOSE i \in 1..Len(subs) :
                         /\ subs[i].kind = "throws"
                         /\ \A j \in 1..(i - 1) : subs[j].kind # "throws"
                ELSE Len(subs)
    IN  [j \in 1..last |-> subs[j].id]

\* One call of _notifyAllSubscribers: the event, what the callbacks are handed, and the
\* callbacks invoked.
Broadcast(event, M) ==
    [event |-> event, user |-> M.currentUser, session |-> M.currentSession,
     callbacks |-> Invoked(stateChangeEmitters)]

Has(evs, event) == \E i \in 1..Len(evs) : evs[i].event = event

CountLoads(evs) == Cardinality({i \in 1..Len(evs) : evs[i].event = INITIAL_STATE_LOADED})

-----------------------------------------------------------------------------
(* Suspended operations and results *)

\* user is the user argument of _callRefreshToken once its default has been applied;
\* current records this.currentUser at the moment a refresh is started, which the
\* program itself never reads back.
Task(op, kind, addr, token, user, val) ==
    [op |-> op, kind |-> kind, addr |-> addr, token |-> token, user |-> user, val |-> val,
     current |-> IF op = "refresh" THEN currentUser ELSE NoUser]

NullVal == _parseStorageJSON(NoItem)

Ret(op, error, ok, session, user, isNewUser) ==
    [op |-> op, error |-> error, ok |-> ok, session |-> session, user |-> user,
     isNewUser |-> isNewUser]

NoRet == Ret("none", FALSE, FALSE, NoSession, NoUser, FALSE)

\* What a step hands to the outside: the events it broadcast and the result it returned.
Out(evs, r) ==
    /\ emitted' = evs
    /\ ret' = r
    /\ initialLoads' = IF initialLoads + CountLoads(evs) > 3 THEN 3
                       ELSE initialLoads + CountLoads(evs)
    /\ signedOut' = IF Has(evs, SIGNED_OUT) THEN TRUE
                    ELSE IF Has(evs, SIGNED_IN) \/ Has(evs, TOKEN_REFRESHED) THEN FALSE
                    ELSE signedOut

-----------------------------------------------------------------------------
(* Transport client: the results the four operations can deliver *)

\* The server has seen "0xA" before; "0xB" signs in for the first time.
isNewUser(addr) == addr = "0xB"

\* verifyAuth: expiresAt is derived from expiresIn only when expiresIn is truthy.
\* The server answers with an error, or with a session that lives 1 s, 61 s or
\* carries no expiry, and whose user is bound to the session or only to the payload.
VerifyResponses(addr, ms) ==
    {[error |-> TRUE, session |-> NoSession, user |-> NoUser, isNewUser |-> FALSE]}
    \cup
    {[error |-> FALSE,
      session |-> Session("at1", RefreshTokenOf(addr),
                          IF x[1] # 0 THEN expiresAt(ms, x[1]) ELSE 0, x[2]),
      user |-> User(addr, 1),
      isNewUser |-> isNewUser(addr)] :
        x \in {<<0, User(addr, 1)>>, <<1, User(addr, 1)>>, <<61, User(addr, 1)>>,
               <<61, NoUser>>}}

\* refreshAccessToken: an error, or a new session for the account of the token
RefreshResponses(token, ms) ==
    {[error |-> TRUE, session |-> NoSession]}
    \cup
    {[error |-> FALSE,
      session |-> Session("at2", token, IF x[1] # 0 THEN expiresAt(ms, x[1]) ELSE 0, x[2])] :
        x \in {<<0, User(AddressOf(token), 2)>>, <<61, User(AddressOf(token), 2)>>,
               <<61, NoUser>>}}

-----------------------------------------------------------------------------
(* _callRefreshToken, from the transport's answer on *)

\* The variant of src/src/client.ts:820-837, which keeps the user the transport returned.
_callRefreshToken_NoOverride(M, token, user, resp, subs, auto, persist, ms) ==
    IF resp.error
    THEN [M |-> M, events |-> <<>>, error |-> TRUE]
    ELSE LET M1 == _saveSession(M, resp.session, auto, persist, ms)
         IN  IF Throws(subs)
             THEN [M |-> M1, events |-> <<Broadcast(TOKEN_REFRESHED, M1)>>, error |-> TRUE]
             ELSE [M |-> M1,
                   events |-> <<Broadcast(TOKEN_REFRESHED, M1), Broadcast(SIGNED_IN, M1)>>,
                   error |-> FALSE]

\* A refresh that announces the sign-in before the refreshed token.
_callRefreshToken_SignedInFirst(M, token, user, resp, subs, auto, persist, ms) ==
    IF resp.error \/ resp.session.user = NoUser
    THEN [M |-> M, events |-> <<>>, error |-> TRUE]
    ELSE LET session == [resp.session EXCEPT !.user = IF user # NoUser THEN user ELSE @]
             M1 == _saveSession(M, session, auto, persist, ms)
         IN  IF Throws(subs)
             THEN [M |-> M1, events |-> <<Broadcast(SIGNED_IN, M1)>>, error |-> TRUE]
             ELSE [M |-> M1,
                   events |-> <<Broadcast(SIGNED_IN, M1), Broadcast(TOKEN_REFRESHED, M1)>>,
                   error |-> FALSE]

\* Result: the core afterwards, the events broadcast, and whether it returns an error.
_callRefreshToken(M, token, user, resp, subs, auto, persist, ms) ==
    IF resp.error \/ resp.session.user = NoUser
    THEN [M |-> M, events |-> <<>>, error |-> TRUE]
    ELSE LET session == [resp.session EXCEPT !.user = IF user # NoUser THEN user ELSE @]
             M1 == _saveSession(M, session, auto, persist, ms)
         IN  IF Throws(subs)
             THEN [M |-> M1, events |-> <<Broadcast(TOKEN_REFRESHED, M1)>>, error |-> TRUE]
             ELSE [M |-> M1,
                   events |-> <<Broadcast(TOKEN_REFRESHED, M1), Broadcast(SIGNED_IN, M1)>>,
                   error |-> FALSE]

\* A recovery that forgets to switch loading off.
FinishRecovery_StillLoading(M, evs) ==
    /\ Commit(M)
    /\ Out(evs \o <<Broadcast(INITIAL_STATE_LOADED, M)>>, NoRet)
    /\ unhandled' = (unhandled \/ Throws(stateChangeEmitters))

\* A recovery that announces a sign-in whenever it completes.
FinishRecovery_AnnouncesSignIn(M, evs) ==
    LET M1 == [M EXCEPT !.loading = FALSE]
    IN  /\ Commit(M1)
        /\ Out(evs \o <<Broadcast(SIGNED_IN, M1), Broadcast(INITIAL_STATE_LOADED, M1)>>, NoRet)
        /\ unhandled' = (unhandled \/ Throws(stateChangeEmitters))

\* The tail of _recoverAndRefresh: loading = false, then INITIAL_STATE_LOADED
FinishRecovery(M, evs) ==
    LET M1 == [M EXCEPT !.loading = FALSE]
    IN  /\ Commit(M1)
        /\ Out(evs \o <<Broadcast(INITIAL_STATE_LOADED, M1)>>, NoRet)
        /\ unhandled' = (unhandled \/ Throws(stateChangeEmitters))

\* _callRefreshToken of the client that has refreshSession and setSession
\* (src/src/client.ts:820-837): no user parameter and no test of the returned user.
_callRefreshToken2(M, token, resp, subs, auto, persist, ms) ==
    IF resp.error
    THEN [M |-> M, events |-> <<>>, error |-> TRUE]
    ELSE LET M1 == _saveSession(M, resp.session, auto, persist, ms)
         IN  IF Throws(subs)
             THEN [M |-> M1, events |-> <<Broadcast(TOKEN_REFRESHED, M1)>>, error |-> TRUE]
             ELSE [M |-> M1,
                   events |-> <<Broadcast(TOKEN_REFRESHED, M1), Broadcast(SIGNED_IN, M1)>>,
                   error |-> FALSE]

-----------------------------------------------------------------------------
(* Initial states: the options and what the store holds before construction *)

\* Sessions a previous run may have left under an address, relative to StartMs.
Unexpired(a) == Session("at1", RefreshTokenOf(a), TimeNow(StartMs) + 61, User(a, 1))

ExpiringNow(a) == Session("at1", RefreshTokenOf(a), TimeNow(StartMs), User(a, 1))

ExpiringSoon(a) == Session("at1", RefreshTokenOf(a), TimeNow(StartMs) + 1, User(a, 1))

ExpiredRefreshable(a) == Session("at1", RefreshTokenOf(a), TimeNow(StartMs) - 1, User(a, 1))

ExpiredNoToken(a) == Session("at1", "", TimeNow(StartMs) - 1, User(a, 1))

MissingUser(a) == Session("at1", RefreshTokenOf(a), TimeNow(StartMs) + 61, NoUser)

MissingExpiresAt(a) == Session("at1", RefreshTokenOf(a), 0, User(a, 1))

ExpiredMissingUser(a) == Session("at1", RefreshTokenOf(a), TimeNow(StartMs) - 1, NoUser)

NoAccessToken(a) == Session("", RefreshTokenOf(a), TimeNow(StartMs) + 61, User(a, 1))

StoredSessions(a) ==
    {NoSession, Unexpired(a), ExpiringSoon(a), ExpiringNow(a), ExpiredRefreshable(a),
     ExpiredNoToken(a),
     MissingUser(a), MissingExpiresAt(a)}

Doc(sa, sb, act) ==
    [sessions |-> [a \in Addresses |-> IF a = "0xA" THEN sa ELSE sb], activeAddress |-> act]

\* Options and store <<autoRefreshToken, persistSessions, recoverSessions, syncStore,
\* setItemFails>>
Defaults == <<TRUE, TRUE, TRUE, TRUE, FALSE>>

NoAutoRefresh == <<FALSE, TRUE, TRUE, TRUE, FALSE>>

NoPersist == <<TRUE, FALSE, TRUE, TRUE, FALSE>>

NoRecover == <<TRUE, TRUE, FALSE, TRUE, FALSE>>

AsyncStore == <<TRUE, TRUE, TRUE, FALSE, FALSE>>

FullStore == <<TRUE, TRUE, TRUE, TRUE, TRUE>>

\* Every kind of active entry for "0xA" (none: a dangling activeAddress), next to a
\* valid account "0xB".
RecoveryStores ==
    {NoItem, Malformed, Stringify(EmptyStore)}
    \cup {Stringify(Doc(sa, Unexpired("0xB"), "0xA")) : sa \in StoredSessions("0xA")}

\* A valid active account "0xA" next to every kind of entry for "0xB".
SwitchStores == {Stringify(Doc(Unexpired("0xA"), sb, "0xA")) : sb \in StoredSessions("0xB")}

FewStores ==
    {Stringify(Doc(Unexpired("0xA"), Unexpired("0xB"), "0xA")),
     Stringify(Doc(ExpiredRefreshable("0xA"), ExpiredRefreshable("0xB"), "0xA"))}

\* The defaults with every store, and each default switched off with a few stores.
Setups ==
    {<<Defaults, st>> : st \in RecoveryStores \cup SwitchStores}
    \cup {<<c, st>> : c \in {NoAutoRefresh, NoPersist, NoRecover, AsyncStore, FullStore},
                      st \in FewStores}

InitWith(setups) ==
    /\ phase = "Uninitialized"
    /\ \E s \in setups :
           /\ autoRefreshToken = s[1][1]
           /\ persistSessions = s[1][2]
           /\ recoverSessions = s[1][3]
           /\ syncStore = s[1][4]
           /\ setItemFails = s[1][5]
           /\ store = s[2]
    /\ currentSession = NoSession
    /\ currentUser = NoUser
    /\ refreshTokenTimer = 0
    /\ timers = {}
    /\ loading = TRUE
    /\ stateChangeEmitters = <<>>
    /\ persisting = <<>>
    /\ tasks = {}
    /\ nowMs = StartMs
    /\ stimuli = 0
    /\ emitted = <<>>
    /\ ret = NoRet
    /\ initialLoads = 0
    /\ signedOut = FALSE
    /\ unhandled = FALSE

Init == InitWith(Setups)

ConfigUnchanged ==
    UNCHANGED <<autoRefreshToken, persistSessions, recoverSessions, syncStore, setItemFails>>

ClockUnchanged == UNCHANGED nowMs

Save(M, session) == _saveSession(M, session, autoRefreshToken, persistSessions, nowMs)

\* activeAddress && sessions[activeAddress]
ActiveSession(doc) ==
    IF doc.activeAddress # "" THEN doc.sessions[doc.activeAddress] ELSE NoSession

-----------------------------------------------------------------------------
(* Construction and recovery *)

\* _recoverActiveSession(): the synchronous phase
_recoverActiveSession(M) ==
    LET val == _getFromStorageSync(M.store, syncStore)
        session == ActiveSession(val.doc)
    IN  IF val.isNull \/ session.isNull
        THEN [M |-> M, events |-> <<>>]
        ELSE IF /\ session.expiresAt # 0
                /\ session.expiresAt >= TimeNow(nowMs)
                /\ session.user # NoUser
             THEN LET M1 == Save(M, session)
                  IN  [M |-> M1,
                       events |-> <<Broadcast(INITIAL_STATE_LOADED, M1),
                                    Broadcast(SIGNED_IN, M1)>>]
             ELSE [M |-> M, events |-> <<>>]

\* new SpecAuthClient(options)
Construct ==
    /\ phase = "Uninitialized"
    /\ phase' = "Constructed"
    /\ IF recoverSessions
       THEN LET r == _recoverActiveSession(Core)
            IN  /\ Commit(r.M)
                /\ Out(r.events, NoRet)
                /\ tasks' = {Task("recover", "", "", "", NoUser, _getFromStorage(r.M.store))}
       ELSE /\ Commit([_removeSessions(Core) EXCEPT !.loading = FALSE])
            /\ Out(<<>>, NoRet)
            /\ tasks' = tasks
    /\ ConfigUnchanged /\ ClockUnchanged
    /\ UNCHANGED <<stateChangeEmitters, stimuli, unhandled>>

\* _recoverAndRefresh(), resumed with the item it read
RecoverContinue(t) ==
    /\ t \in tasks /\ t.op = "recover"
    /\ LET session == ActiveSession(t.val.doc)
           exp == session.expiresAt
       IN  IF t.val.isNull
           THEN \* loading = false, broadcast, return; a callback that throws there is
                \* caught, and the tail of the routine broadcasts again
                /\ IF Throws(stateChangeEmitters)
                   THEN FinishRecovery(Core, <<Broadcast(INITIAL_STATE_LOADED, Core)>>)
                   ELSE FinishRecovery(Core, <<>>)
                /\ tasks' = tasks \ {t}
           ELSE IF exp # 0 /\ exp < TimeNow(nowMs)
           THEN IF autoRefreshToken /\ session.refreshToken # ""
                THEN /\ tasks' = (tasks \ {t}) \cup
                            {Task("refresh", "recover", "", session.refreshToken,
                                  IF session.user # NoUser THEN session.user
                                  ELSE currentUser, NullVal)}
                     /\ Out(<<>>, NoRet)
                     /\ UNCHANGED <<currentSession, currentUser, refreshTokenTimer, timers,
                                    loading, store, persisting, unhandled>>
                ELSE /\ FinishRecovery(_removeSessions(Core), <<>>)
                     /\ tasks' = tasks \ {t}
           ELSE IF exp = 0 \/ session.isNull \/ session.user = NoUser
           THEN /\ FinishRecovery(_removeSessions(Core), <<>>)
                /\ tasks' = tasks \ {t}
           ELSE LET M1 == Save(Core, session)
                IN  /\ FinishRecovery(M1, <<Broadcast(SIGNED_IN, M1)>>)
                    /\ tasks' = tasks \ {t}
    /\ ConfigUnchanged /\ ClockUnchanged
    /\ UNCHANGED <<phase, stateChangeEmitters, stimuli>>

-----------------------------------------------------------------------------
(* Public operations *)

CanCall == phase = "Constructed" /\ stimuli < MaxStimuli

\* verify(address, signature), up to the awaited transport call
VerifyCall(addr) ==
    /\ CanCall
    /\ Task("verify", "", addr, "", NoUser, NullVal) \notin tasks
    /\ tasks' = tasks \cup {Task("verify", "", addr, "", NoUser, NullVal)}
    /\ stimuli' = stimuli + 1
    /\ Out(<<>>, NoRet)
    /\ ConfigUnchanged /\ ClockUnchanged
    /\ UNCHANGED <<phase, currentSession, currentUser, refreshTokenTimer, timers, loading,
                   stateChangeEmitters, store, persisting, unhandled>>

\* A verify that reports success without committing when nobody is signed in any more.
verify_DroppedWhenSignedOut(M, resp, subs) ==
    IF resp.error
    THEN [M |-> M, events |-> <<>>,
          ret |-> Ret("verify", TRUE, FALSE, NoSession, NoUser, FALSE)]
    ELSE IF M.currentSession.isNull
    THEN [M |-> M, events |-> <<>>,
          ret |-> Ret("verify", FALSE, TRUE, resp.session, resp.user, resp.isNewUser)]
    ELSE LET M1 == Save(M, resp.session)
         IN  [M |-> M1, events |-> <<Broadcast(SIGNED_IN, M1)>>,
              ret |-> IF Throws(subs)
                      THEN Ret("verify", TRUE, FALSE, NoSession, NoUser, FALSE)
                      ELSE Ret("verify", FALSE, TRUE, resp.session, resp.user,
                               resp.isNewUser)]

\* verify, from the transport's answer on
verify(M, resp, subs) ==
    IF resp.error
    THEN [M |-> M, events |-> <<>>,
          ret |-> Ret("verify", TRUE, FALSE, NoSession, NoUser, FALSE)]
    ELSE LET M1 == Save(M, resp.session)
         IN  [M |-> M1, events |-> <<Broadcast(SIGNED_IN, M1)>>,
              ret |-> IF Throws(subs)
                      THEN Ret("verify", TRUE, FALSE, NoSession, NoUser, FALSE)
                      ELSE Ret("verify", FALSE, TRUE, resp.session, resp.user,
                               resp.isNewUser)]

VerifyReturn(t, resp) ==
    /\ t \in tasks /\ t.op = "verify"
    /\ LET r == verify(Core, resp, stateChangeEmitters)
       IN  /\ Commit(r.M)
           /\ Out(r.events, r.ret)
    /\ tasks' = tasks \ {t}
    /\ ConfigUnchanged /\ ClockUnchanged
    /\ UNCHANGED <<phase, stateChangeEmitters, stimuli, unhandled>>

\* setSession(refreshToken), up to the awaited transport call
SetSessionCall(token) ==
    /\ CanCall
    /\ stimuli' = stimuli + 1
    /\ IF token = ""
       THEN /\ Out(<<>>, Ret("setSession", TRUE, FALSE, NoSession, NoUser, FALSE))
            /\ tasks' = tasks
       ELSE /\ Task("setSession", "", "", token, NoUser, NullVal) \notin tasks
            /\ tasks' = tasks \cup {Task("setSession", "", "", token, NoUser, NullVal)}
            /\ Out(<<>>, NoRet)
    /\ ConfigUnchanged /\ ClockUnchanged
    /\ UNCHANGED <<phase, currentSession, currentUser, refreshTokenTimer, timers, loading,
                   stateChangeEmitters, store, persisting, unhandled>>

\* setSession, from the transport's answer on
setSession(M, resp, subs) ==
    IF resp.error
    THEN [M |-> M, events |-> <<>>,
          ret |-> Ret("setSession", TRUE, FALSE, NoSession, NoUser, FALSE)]
    ELSE LET M1 == Save(M, resp.session)
         IN  [M |-> M1, events |-> <<Broadcast(SIGNED_IN, M1)>>,
              ret |-> IF Throws(subs)
                      THEN Ret("setSession", TRUE, FALSE, NoSession, NoUser, FALSE)
                      ELSE Ret("setSession", FALSE, TRUE, resp.session, NoUser, FALSE)]

SetSessionReturn(t, resp) ==
    /\ t \in tasks /\ t.op = "setSession"
    /\ LET r == setSession(Core, resp, stateChangeEmitters)
       IN  /\ Commit(r.M)
           /\ Out(r.events, r.ret)
    /\ tasks' = tasks \ {t}
    /\ ConfigUnchanged /\ ClockUnchanged
    /\ UNCHANGED <<phase, stateChangeEmitters, stimuli, unhandled>>

\* A refreshSession that calls the transport whatever the current session is.
RefreshSessionCall_NoValidation ==
    /\ CanCall
    /\ stimuli' = stimuli + 1
    /\ LET t == Task("refresh", "refreshSession", "", currentSession.refreshToken,
                     NoUser, NullVal)
       IN  /\ t \notin tasks
           /\ tasks' = tasks \cup {t}
           /\ Out(<<>>, NoRet)
    /\ ConfigUnchanged /\ ClockUnchanged
    /\ UNCHANGED <<phase, currentSession, currentUser, refreshTokenTimer, timers, loading,
                   stateChangeEmitters, store, persisting, unhandled>>

\* refreshSession(), up to the awaited transport call of _callRefreshToken()
RefreshSessionCall ==
    /\ CanCall
    /\ stimuli' = stimuli + 1
    /\ IF currentSession.isNull \/ currentSession.accessToken = ""
          \/ currentSession.refreshToken = ""
       THEN /\ Out(<<>>, Ret("refreshSession", TRUE, FALSE, NoSession, NoUser, FALSE))
            /\ tasks' = tasks
       ELSE LET t == Task("refresh", "refreshSession", "", currentSession.refreshToken,
                          NoUser, NullVal)
            IN  /\ t \notin tasks
                /\ tasks' = tasks \cup {t}
                /\ Out(<<>>, NoRet)
    /\ ConfigUnchanged /\ ClockUnchanged
    /\ UNCHANGED <<phase, currentSession, currentUser, refreshTokenTimer, timers, loading,
                   stateChangeEmitters, store, persisting, unhandled>>

\* The scheduled callback () => this._callRefreshToken()
TimerFire(tm) ==
    /\ tm \in timers
    /\ nowMs >= tm.fireAt
    /\ timers' = timers \ {tm}
    /\ IF currentSession.refreshToken = ""
       THEN /\ tasks' = tasks
            /\ Out(<<>>, NoRet)
       ELSE LET t == Task("refresh", "timer", "", currentSession.refreshToken,
                          currentUser, NullVal)
            IN  /\ t \notin tasks
                /\ tasks' = tasks \cup {t}
                /\ Out(<<>>, NoRet)
    /\ ConfigUnchanged /\ ClockUnchanged
    /\ UNCHANGED <<phase, currentSession, currentUser, refreshTokenTimer, loading,
                   stateChangeEmitters, store, persisting, stimuli, unhandled>>

\* _callRefreshToken resumed, then the continuation of whoever awaited it
RefreshReturn(t, resp) ==
    /\ t \in tasks /\ t.op = "refresh"
    /\ tasks' = tasks \ {t}
    /\ LET r == IF t.kind = "refreshSession"
                THEN _callRefreshToken2(Core, t.token, resp, stateChangeEmitters,
                                        autoRefreshToken, persistSessions, nowMs)
                ELSE _callRefreshToken(Core, t.token, t.user, resp, stateChangeEmitters,
                                       autoRefreshToken, persistSessions, nowMs)
       IN  /\ CASE t.kind = "refreshSession" ->
                     /\ Commit(r.M)
                     /\ Out(r.events,
                            IF r.error
                            THEN Ret("refreshSession", TRUE, FALSE, NoSession, NoUser, FALSE)
                            ELSE Ret("refreshSession", FALSE, TRUE, r.M.currentSession,
                                     r.M.currentUser, FALSE))
                     /\ UNCHANGED unhandled
                [] t.kind = "timer" ->
                     /\ Commit(r.M)
                     /\ Out(r.events, NoRet)
                     /\ UNCHANGED unhandled
                [] t.kind = "switch" ->
                     /\ Commit(IF r.error THEN _removeSessions(r.M) ELSE r.M)
                     /\ Out(r.events,
                            Ret("switchToInactiveSession", FALSE, ~r.error, NoSession,
                                NoUser, FALSE))
                     /\ UNCHANGED unhandled
                [] t.kind = "recover" ->
                     FinishRecovery(IF r.error THEN _removeSessions(r.M) ELSE r.M,
                                    r.events)
    /\ ConfigUnchanged /\ ClockUnchanged
    /\ UNCHANGED <<phase, stateChangeEmitters, stimuli>>


SwitchRet(ok) == Ret("switchToInactiveSession", FALSE, ok, NoSession, NoUser, FALSE)

\* A switch without the early return for the address of the current user.
SwitchCall_AlwaysReads(addr) ==
    /\ CanCall
    /\ stimuli' = stimuli + 1
    /\ LET t == Task("switch", "", addr, "", NoUser, _getFromStorage(store))
       IN  /\ t \notin tasks
           /\ tasks' = tasks \cup {t}
           /\ Out(<<>>, NoRet)
    /\ ConfigUnchanged /\ ClockUnchanged
    /\ UNCHANGED <<phase, currentSession, currentUser, refreshTokenTimer, timers, loading,
                   stateChangeEmitters, store, persisting, unhandled>>

\* switchToInactiveSession(address), up to the awaited read of the store
SwitchCall(addr) ==
    /\ CanCall
    /\ stimuli' = stimuli + 1
    /\ IF currentUser.id = addr
       THEN /\ Out(<<>>, SwitchRet(TRUE))
            /\ tasks' = tasks
       ELSE LET t == Task("switch", "", addr, "", NoUser, _getFromStorage(store))
            IN  /\ t \notin tasks
                /\ tasks' = tasks \cup {t}
                /\ Out(<<>>, NoRet)
    /\ ConfigUnchanged /\ ClockUnchanged
    /\ UNCHANGED <<phase, currentSession, currentUser, refreshTokenTimer, timers, loading,
                   stateChangeEmitters, store, persisting, unhandled>>

\* A switch that takes a session for expired in the very second of its expiry.
isExpired_AtExpiry(session, ms) == TimeNow(ms) >= session.expiresAt

\* timeNow > inactiveSession.expiresAt
isExpired(session, ms) == TimeNow(ms) > session.expiresAt

\* switchToInactiveSession resumed with the item it read
SwitchContinue(t) ==
    /\ t \in tasks /\ t.op = "switch"
    /\ LET inactiveSession == t.val.doc.sessions[t.addr]
       IN  IF \/ t.val.isNull
              \/ inactiveSession.isNull
              \/ inactiveSession.expiresAt = 0
              \/ inactiveSession.user = NoUser
           THEN /\ Out(<<>>, SwitchRet(FALSE))
                /\ tasks' = tasks \ {t}
                /\ UNCHANGED <<currentSession, currentUser, refreshTokenTimer, timers,
                               loading, store, persisting>>
           ELSE IF ~isExpired(inactiveSession, nowMs)
           THEN LET M1 == Save(Core, inactiveSession)
                IN  /\ Commit(M1)
                    /\ Out(<<Broadcast(SIGNED_IN, M1)>>,
                           SwitchRet(~Throws(stateChangeEmitters)))
                    /\ tasks' = tasks \ {t}
           ELSE IF autoRefreshToken /\ inactiveSession.refreshToken # ""
           THEN /\ Task("refresh", "switch", t.addr, inactiveSession.refreshToken,
                        inactiveSession.user, NullVal) \notin tasks
                /\ tasks' = (tasks \ {t}) \cup
                       {Task("refresh", "switch", t.addr, inactiveSession.refreshToken,
                             inactiveSession.user, NullVal)}
                /\ Out(<<>>, NoRet)
                /\ UNCHANGED <<currentSession, currentUser, refreshTokenTimer, timers,
                               loading, store, persisting>>
           ELSE /\ Out(<<>>, SwitchRet(FALSE))
                /\ tasks' = tasks \ {t}
                /\ UNCHANGED <<currentSession, currentUser, refreshTokenTimer, timers,
                               loading, store, persisting>>
    /\ ConfigUnchanged /\ ClockUnchanged
    /\ UNCHANGED <<phase, stateChangeEmitters, stimuli, unhandled>>

\* A signOut that sends the revoke request and leaves the local state for later.
SignOutCall_RevokeOnly ==
    /\ CanCall
    /\ stimuli' = stimuli + 1
    /\ currentSession.accessToken # ""
    /\ Task("signOut", "", "", currentSession.accessToken, NoUser, NullVal) \notin tasks
    /\ tasks' = tasks \cup {Task("signOut", "", "", currentSession.accessToken, NoUser, NullVal)}
    /\ Out(<<>>, NoRet)
    /\ ConfigUnchanged /\ ClockUnchanged
    /\ UNCHANGED <<phase, currentSession, currentUser, refreshTokenTimer, timers, loading,
                   stateChangeEmitters, store, persisting, unhandled>>

\* A signOut that announces nothing when no session was active.
SignOutCall_SilentWhenSignedOut ==
    /\ CanCall
    /\ stimuli' = stimuli + 1
    /\ LET accessToken == currentSession.accessToken
           M1 == _removeSessions(Core)
           evs == IF currentSession.isNull THEN <<>> ELSE <<Broadcast(SIGNED_OUT, M1)>>
       IN  /\ Commit(M1)
           /\ IF Throws(stateChangeEmitters) /\ evs # <<>>
              THEN /\ Out(evs, Ret("signOut", TRUE, FALSE, NoSession, NoUser, FALSE))
                   /\ tasks' = tasks
                   /\ unhandled' = TRUE
              ELSE IF accessToken # ""
              THEN /\ Task("signOut", "", "", accessToken, NoUser, NullVal) \notin tasks
                   /\ tasks' = tasks \cup {Task("signOut", "", "", accessToken, NoUser, NullVal)}
                   /\ Out(evs, NoRet)
                   /\ UNCHANGED unhandled
              ELSE /\ Out(evs, Ret("signOut", FALSE, TRUE, NoSession, NoUser, FALSE))
                   /\ tasks' = tasks
                   /\ UNCHANGED unhandled
    /\ ConfigUnchanged /\ ClockUnchanged
    /\ UNCHANGED <<phase, stateChangeEmitters>>

\* signOut(), up to the awaited revoke call
SignOutCall ==
    /\ CanCall
    /\ stimuli' = stimuli + 1
    /\ LET accessToken == currentSession.accessToken
           M1 == _removeSessions(Core)
       IN  /\ Commit(M1)
           /\ IF Throws(stateChangeEmitters)
              THEN \* the broadcast throws out of signOut: its promise rejects
                   /\ Out(<<Broadcast(SIGNED_OUT, M1)>>,
                          Ret("signOut", TRUE, FALSE, NoSession, NoUser, FALSE))
                   /\ tasks' = tasks
                   /\ unhandled' = TRUE
              ELSE IF accessToken # ""
              THEN /\ Task("signOut", "", "", accessToken, NoUser, NullVal) \notin tasks
                   /\ tasks' = tasks \cup {Task("signOut", "", "", accessToken, NoUser, NullVal)}
                   /\ Out(<<Broadcast(SIGNED_OUT, M1)>>, NoRet)
                   /\ UNCHANGED unhandled
              ELSE /\ Out(<<Broadcast(SIGNED_OUT, M1)>>,
                          Ret("signOut", FALSE, TRUE, NoSession, NoUser, FALSE))
                   /\ tasks' = tasks
                   /\ UNCHANGED unhandled
    /\ ConfigUnchanged /\ ClockUnchanged
    /\ UNCHANGED <<phase, stateChangeEmitters>>

\* signOut resumed with the transport's answer to the revoke call
SignOutReturn(t, error) ==
    /\ t \in tasks /\ t.op = "signOut"
    /\ tasks' = tasks \ {t}
    /\ Out(<<>>, Ret("signOut", error, ~error, NoSession, NoUser, FALSE))
    /\ ConfigUnchanged /\ ClockUnchanged
    /\ UNCHANGED <<phase, currentSession, currentUser, refreshTokenTimer, timers, loading,
                   stateChangeEmitters, store, persisting, stimuli, unhandled>>

\* uuid(): an identifier that was never issued before (the ordinal of the call)
uuid == stimuli + 1

\* onStateChange(callback)
OnStateChange(kind) ==
    /\ CanCall
    /\ stimuli' = stimuli + 1
    /\ stateChangeEmitters' = Append(stateChangeEmitters, Subscription(uuid, kind))
    /\ Out(<<>>, NoRet)
    /\ ConfigUnchanged /\ ClockUnchanged
    /\ UNCHANGED <<phase, currentSession, currentUser, refreshTokenTimer, timers, loading,
                   store, persisting, tasks, unhandled>>

\* A detach that empties the registry.
Unsubscribe_ClearsRegistry(i) ==
    /\ phase = "Constructed"
    /\ i \in 1..Len(stateChangeEmitters)
    /\ stateChangeEmitters' = <<>>
    /\ Out(<<>>, NoRet)
    /\ ConfigUnchanged /\ ClockUnchanged
    /\ UNCHANGED <<phase, currentSession, currentUser, refreshTokenTimer, timers, loading,
                   store, persisting, tasks, stimuli, unhandled>>

\* subscription.unsubscribe() of the subscription at position i of the registry.  It
\* only shrinks the registry, so it is not counted against the bound on the host's calls.
Unsubscribe(i) ==
    /\ phase = "Constructed"
    /\ UNCHANGED stimuli
    /\ i \in 1..Len(stateChangeEmitters)
    /\ stateChangeEmitters' =
           [j \in 1..(Len(stateChangeEmitters) - 1) |->
               IF j < i THEN stateChangeEmitters[j] ELSE stateChangeEmitters[j + 1]]
    /\ Out(<<>>, NoRet)
    /\ ConfigUnchanged /\ ClockUnchanged
    /\ UNCHANGED <<phase, currentSession, currentUser, refreshTokenTimer, timers, loading,
                   store, persisting, tasks, unhandled>>

-----------------------------------------------------------------------------
(* Background steps *)

\* _persistSessions resumed with the item it read: modify, then _setToStorage
_persistSessions(p, st) ==
    LET persistedSessions == _getPersistedSessions(p.val)
        currentUserAddress == p.session.user.id
    IN  IF isBrowser
        THEN Stringify([sessions |-> [persistedSessions.sessions
                                         EXCEPT ![currentUserAddress] = p.session],
                        activeAddress |-> currentUserAddress])
        ELSE st

PersistWrite ==
    /\ persisting # <<>>
    /\ persisting' = Tail(persisting)
    /\ IF Head(persisting).session.user = NoUser \/ setItemFails
       THEN \* currentSession.user.id of a null user, or a setItem that rejects: the
            \* floating promise of _persistSessions rejects
            /\ unhandled' = TRUE
            /\ store' = store
       ELSE /\ store' = _persistSessions(Head(persisting), store)
            /\ UNCHANGED unhandled
    /\ Out(<<>>, NoRet)
    /\ ConfigUnchanged /\ ClockUnchanged
    /\ UNCHANGED <<phase, currentSession, currentUser, refreshTokenTimer, timers, loading,
                   stateChangeEmitters, tasks, stimuli>>

\* Time passes.
Tick(dt) ==
    /\ CanCall
    /\ stimuli' = stimuli + 1
    /\ nowMs' = nowMs + dt
    /\ Out(<<>>, NoRet)
    /\ ConfigUnchanged
    /\ UNCHANGED <<phase, currentSession, currentUser, refreshTokenTimer, timers, loading,
                   stateChangeEmitters, store, persisting, tasks, unhandled>>

-----------------------------------------------------------------------------
(* Specifications *)

\* What the manager does on its own: construction, continuations, timers.
Recovery ==
    \/ Construct
    \/ \E t \in tasks : RecoverContinue(t)

Refreshing ==
    \/ \E tm \in timers : TimerFire(tm)
    \/ \E t \in tasks : \E resp \in RefreshResponses(t.token, nowMs) : RefreshReturn(t, resp)

Verifying ==
    \/ VerifyCall("0xB")
    \/ \E t \in tasks : \E resp \in VerifyResponses(t.addr, nowMs) : VerifyReturn(t, resp)

SettingSession ==
    \/ \E token \in {"", "rtB"} : SetSessionCall(token)
    \/ \E t \in tasks : \E resp \in RefreshResponses(t.token, nowMs) : SetSessionReturn(t, resp)

Switching ==
    \/ \E a \in Addresses : SwitchCall(a)
    \/ \E t \in tasks : SwitchContinue(t)

SigningOut ==
    \/ SignOutCall
    \/ \E t \in tasks, error \in BOOLEAN : SignOutReturn(t, error)

Subscribing ==
    \/ \E kind \in CallbackKinds : OnStateChange(kind)
    \/ \E i \in 1..Len(stateChangeEmitters) : Unsubscribe(i)

Time == \E dt \in TickSteps : Tick(dt)

Next ==
    \/ Recovery
    \/ Refreshing
    \/ PersistWrite
    \/ Verifying
    \/ SettingSession
    \/ RefreshSessionCall
    \/ Switching
    \/ SigningOut
    \/ Subscribing
    \/ Time

\* The whole manager, from every initial store and option.
Spec == Init /\ [][Next]_vars

\* Switching between persisted accounts.
InitSwitch ==
    InitWith({<<Defaults, st>> : st \in SwitchStores}
             \cup {<<NoAutoRefresh, Stringify(Doc(Unexpired("0xA"),
                                                  ExpiredRefreshable("0xB"), "0xA"))>>})

NextSwitch ==
    \/ Recovery
    \/ Refreshing
    \/ PersistWrite
    \/ Switching
    \/ SigningOut
    \/ \E kind \in CallbackKinds : OnStateChange(kind)
    \/ Time

SpecSwitch == InitSwitch /\ [][NextSwitch]_vars

\* Refreshing: on request, by the timer, by a switch and by recovery.
InitRefresh ==
    InitWith({<<Defaults, Stringify(Doc(sa, ExpiredRefreshable("0xB"), "0xA"))>> :
                 sa \in {Unexpired("0xA"), ExpiredRefreshable("0xA"), NoAccessToken("0xA")}})

NextRefresh ==
    \/ Recovery
    \/ Refreshing
    \/ PersistWrite
    \/ RefreshSessionCall
    \/ Switching
    \/ \E kind \in CallbackKinds : OnStateChange(kind)
    \/ Time

SpecRefresh == InitRefresh /\ [][NextRefresh]_vars

\* The operations that validate their input before they call the transport.
NextValidate ==
    \/ Recovery
    \/ Refreshing
    \/ PersistWrite
    \/ RefreshSessionCall
    \/ SettingSession
    \/ SigningOut
    \/ Time

SpecValidate == InitRefresh /\ [][NextValidate]_vars

\* Recovery at construction, with a sign-in that may arrive while it runs.
InitRecover ==
    InitWith({<<Defaults, st>> : st \in RecoveryStores}
             \cup {<<c, st>> : c \in {NoAutoRefresh, NoRecover, AsyncStore}, st \in FewStores})

NextRecover ==
    \/ Recovery
    \/ Refreshing
    \/ PersistWrite
    \/ Verifying
    \/ \E kind \in CallbackKinds : OnStateChange(kind)
    \/ Time

SpecRecover == InitRecover /\ [][NextRecover]_vars

\* The refresh that phase 2 of recovery awaits returns.
RecoveryRefreshReturn ==
    \E t \in tasks :
        /\ t.kind = "recover"
        /\ \E resp \in RefreshResponses(t.token, nowMs) : RefreshReturn(t, resp)

NextLoading ==
    \/ Recovery
    \/ Refreshing
    \/ PersistWrite
    \/ \E kind \in CallbackKinds : OnStateChange(kind)
    \/ Time

\* Recovery when the constructor runs and every awaited storage and transport call of
\* recovery returns.
SpecLoading ==
    /\ InitRecover
    /\ [][NextLoading]_vars
    /\ WF_vars(Recovery)
    /\ WF_vars(RecoveryRefreshReturn)

\* Subscribers that come and go while the manager recovers, refreshes and signs out.
InitSubscribe == InitWith({<<Defaults, st>> : st \in FewStores})

NextSubscribe ==
    \/ Recovery
    \/ Refreshing
    \/ PersistWrite
    \/ Subscribing
    \/ SigningOut
    \/ Time

SpecSubscribe == InitSubscribe /\ [][NextSubscribe]_vars

\* Answers of the transport that arrive after the caller has signed out or switched.
InitLate == InitWith({<<Defaults, Stringify(Doc(Unexpired("0xA"), Unexpired("0xB"), "0xA"))>>})

NextLate ==
    \/ Recovery
    \/ Refreshing
    \/ PersistWrite
    \/ Verifying
    \/ SigningOut
    \/ Switching
    \/ Time

SpecLate == InitLate /\ [][NextLate]_vars

\* Recovery from a store whose active entry is incomplete or missing.
InitCorrupt ==
    InitWith({<<Defaults, Stringify(Doc(sa, Unexpired("0xB"), "0xA"))>> :
                 sa \in {NoSession, MissingUser("0xA"), MissingExpiresAt("0xA"),
                         ExpiredMissingUser("0xA")}})

SpecCorrupt == InitCorrupt /\ [][NextLoading]_vars

\* Recovery on its own: no caller request other than registrations.
SpecRecoverOnly == InitRecover /\ [][NextLoading]_vars

\* Sessions on either side of their expiry, recovered and switched to while time passes.
ExpiryStores ==
    {Stringify(Doc(sa, sb, "0xA")) :
        sa \in {ExpiringNow("0xA"), ExpiringSoon("0xA"), ExpiredRefreshable("0xA")},
        sb \in {ExpiringNow("0xB"), ExpiringSoon("0xB"), ExpiredRefreshable("0xB")}}

InitExpiry == InitWith({<<c, st>> : c \in {Defaults, AsyncStore}, st \in ExpiryStores})

NextExpiry ==
    \/ Recovery
    \/ Refreshing
    \/ PersistWrite
    \/ Switching
    \/ Time

SpecExpiry == InitExpiry /\ [][NextExpiry]_vars

\* Every way a session goes away: signOut, removal in recovery, removal after the
\* failed refresh of a switch or of the scheduler.
InitRemove ==
    InitWith({<<Defaults, Stringify(Doc(sa, ExpiredRefreshable("0xB"), "0xA"))>> :
                 sa \in {Unexpired("0xA"), ExpiredRefreshable("0xA"), ExpiredNoToken("0xA"),
                         MissingUser("0xA")}})

NextRemove ==
    \/ Recovery
    \/ Refreshing
    \/ PersistWrite
    \/ Switching
    \/ SigningOut
    \/ \E kind \in CallbackKinds : OnStateChange(kind)
    \/ Time

SpecRemove == InitRemove /\ [][NextRemove]_vars

-----------------------------------------------------------------------------
(* Properties *)

\* The operations a step completed: the suspended operations it resumed.
Resumed == tasks \ tasks'

\* The step saved a session that is still current after it.  Every call of
\* _saveSession is followed by a broadcast, whose snapshot is the saved session.
SavedSession ==
    /\ emitted' # <<>>
    /\ \/ emitted'[1].event \in {SIGNED_IN, TOKEN_REFRESHED}
       \/ Len(emitted') = 2 /\ emitted'[2].event = SIGNED_IN
    /\ emitted'[1].session = currentSession'
    /\ ~currentSession'.isNull

\* expiresIn as _saveSession computes it for the session current after the step
SavedExpiresIn == currentSession'.expiresAt - TimeNow(nowMs')

SwitchName == "switchToInactiveSession"

\* C1: once signOut was invoked and every storage operation pending at that moment has
\* completed, there is no session, no user, no item under the storage key and no timer,
\* also when the persist of an earlier save was still in flight.
C1_SignOutLeavesNothing ==
    (signedOut /\ persisting = <<>>) =>
        /\ currentSession.isNull
        /\ currentUser = NoUser
        /\ store = NoItem
        /\ timers = {}

\* The broadcast e announced the event with that user and that session.
Shows(e, event, user, session) ==
    /\ e.event = event
    /\ e.user = user
    /\ e.session = session

\* C2: a verify, setSession or refreshSession that returns an error leaves the session,
\* the user, the armed timer and the store as they were.
C2_FailedCallCommitsNothing ==
    [][(ret'.op \in {"verify", "setSession", "refreshSession"} /\ ret'.error)
          => UNCHANGED <<currentSession, currentUser, timers, store>>]_vars

\* C3: when the transport's verify succeeded (the answer was committed and broadcast),
\* verify broadcasts SIGNED_IN exactly once with the committed state and returns the
\* session, the user and isNewUser with a null error.
C3_VerifySuccessReturnsSession ==
    [][\A t \in Resumed :
          (t.op = "verify" /\ emitted' # <<>>) =>
              /\ Len(emitted') = 1
              /\ Shows(emitted'[1], SIGNED_IN, currentUser', currentSession')
              /\ currentUser' = currentSession'.user
              /\ ret'.op = "verify"
              /\ ~ret'.error
              /\ ret'.session = currentSession'
              /\ ret'.user = User(t.addr, 1)
              /\ ret'.isNewUser = isNewUser(t.addr)]_vars

\* C4: every switchToInactiveSession that returns false leaves the session, the user,
\* the armed timer and the store unchanged, except the removal after a failed refresh.
C4_FalseSwitchChangesNothing ==
    [][(/\ ret'.op = SwitchName
        /\ ~ret'.ok
        /\ ~\E t \in Resumed : t.op = "refresh")
          => UNCHANGED <<currentSession, currentUser, timers, store>>]_vars

\* C5: a switch to a persisted session that is complete and not expired adopts it,
\* broadcasts SIGNED_IN, returns true, makes user().id the address and starts the
\* persist that makes the address the active one.
C5_SwitchAdoptsUnexpired ==
    [][\A t \in Resumed :
          (/\ t.op = "switch"
           /\ ~t.val.isNull
           /\ ~t.val.doc.sessions[t.addr].isNull
           /\ t.val.doc.sessions[t.addr].expiresAt # 0
           /\ t.val.doc.sessions[t.addr].user # NoUser
           /\ TimeNow(nowMs) <= t.val.doc.sessions[t.addr].expiresAt)
          => /\ ret'.op = SwitchName
             /\ ret'.ok
             /\ currentSession' = t.val.doc.sessions[t.addr]
             /\ currentUser'.id = t.addr
             /\ Len(emitted') = 1
             /\ Shows(emitted'[1], SIGNED_IN, currentUser', currentSession')
             /\ persistSessions =>
                    /\ persisting' # <<>>
                    /\ persisting'[Len(persisting')].session.user.id = t.addr]_vars

C7_SwitchToCurrentIsNoOp ==
    [][/\ (stimuli' # stimuli /\ ret'.op = SwitchName)
             => /\ ret'.ok
                /\ tasks' = tasks
                /\ emitted' = <<>>
                /\ UNCHANGED <<currentSession, currentUser, refreshTokenTimer, timers,
                               store, persisting>>
       /\ \A t \in tasks' \ tasks : t.op = "switch" => t.addr # currentUser.id]_vars

\* A switch to the current account returned true with a session in place.
C7_Witness ==
    /\ ret.op = SwitchName
    /\ ret.ok
    /\ emitted = <<>>
    /\ ~currentSession.isNull
    /\ currentUser.id = "0xA"
    /\ stimuli > 0

\* C8 as stated: after every save of a session with expiresAt the refresh timer is armed
\* with the delay expiresIn*1000 - 60000 (expiresIn > 60) or expiresIn*1000 - 500.
C8_TimerArmedAfterEverySave ==
    [][(SavedSession /\ currentSession'.expiresAt # 0)
          => \E t \in timers' :
                 /\ t.id = refreshTokenTimer'
                 /\ t.fireAt = nowMs' + (IF SavedExpiresIn > 60
                                         THEN SavedExpiresIn * 1000 - 60000
                                         ELSE SavedExpiresIn * 1000 - 500)]_vars

\* C8 amended: with auto-refresh enabled, after the save of a session with expiresAt and
\* expiresIn >= 1 exactly one timer is armed, with that delay; with auto-refresh
\* disabled a save arms no timer.
C8_TimerArmedWhenEnabled ==
    [][(SavedSession /\ currentSession'.expiresAt # 0)
          => /\ (autoRefreshToken /\ SavedExpiresIn >= 1)
                    => timers' = {[id |-> refreshTokenTimer',
                                   fireAt |-> nowMs' + (IF SavedExpiresIn > 60
                                                        THEN SavedExpiresIn * 1000 - 60000
                                                        ELSE SavedExpiresIn * 1000 - 500)]}
             /\ ~autoRefreshToken => timers' = {}]_vars

\* A session with 61 s to live was saved and its refresh is armed 1 s from now.
C8_Witness ==
    /\ autoRefreshToken
    /\ ~currentSession.isNull
    /\ emitted # <<>>
    /\ emitted[1].session = currentSession
    /\ currentSession.expiresAt - TimeNow(nowMs) = 61
    /\ timers = {[id |-> refreshTokenTimer, fireAt |-> nowMs + 1000]}

\* C9: with auto-refresh enabled, every save of a session with expiresAt >= now leaves a
\* refresh armed that fires strictly before expiresAt, expiresIn = 0 included.
C9_RefreshArmedBeforeExpiry ==
    [][(/\ autoRefreshToken
        /\ SavedSession
        /\ currentSession'.expiresAt # 0
        /\ SavedExpiresIn >= 0)
          => \E t \in timers' :
                 /\ t.id = refreshTokenTimer'
                 /\ t.fireAt < currentSession'.expiresAt * 1000]_vars

\* C10: when the refresh started by the timer fails (nothing was committed), the session,
\* the user, the stored item and the timer are removed and nothing is broadcast.
C10_FailedTimerRefreshRemoves ==
    [][\A t \in Resumed :
          (t.op = "refresh" /\ t.kind = "timer" /\ emitted' = <<>>)
          => /\ currentSession'.isNull
             /\ currentUser' = NoUser
             /\ store' = NoItem
             /\ timers' = {}]_vars

\* What a resumed refresh broadcast itself: recovery appends INITIAL_STATE_LOADED.
RefreshEvents(t) ==
    IF t.kind = "recover" THEN SubSeq(emitted', 1, Len(emitted') - 1) ELSE emitted'

\* C11: every refresh that succeeds has committed the new session (the one the
\* transport returned, with the override user) and then broadcast TOKEN_REFRESHED and
\* SIGNED_IN, in that order, both showing the committed session; a refresh broadcasts
\* nothing else, and stops after TOKEN_REFRESHED only when a callback throws.  After
\* the recovery of the expired account "0xA", user().id is "0xA".
C11_RefreshSavesThenBroadcasts ==
    [][\A t \in Resumed :
          t.op = "refresh" =>
              LET evs == RefreshEvents(t)
                  n == Len(evs)
              IN  /\ n <= 2
                  /\ n >= 1 => /\ evs[1].event = TOKEN_REFRESHED
                               /\ evs[1].session.accessToken = "at2"
                               /\ evs[1].session.refreshToken = t.token
                               /\ evs[1].session.user = evs[1].user
                               /\ t.user # NoUser => evs[1].user = t.user
                  /\ n = 1 => Throws(stateChangeEmitters)
                  /\ n = 2 => /\ evs[2] = [evs[1] EXCEPT !.event = SIGNED_IN]
                              /\ currentSession' = evs[1].session
                              /\ currentUser' = evs[1].user
                  /\ (t.kind = "refreshSession" /\ ~ret'.error) =>
                         (n = 2 /\ ret'.session = currentSession')
                  /\ (t.kind = "switch" /\ ret'.ok) => n = 2
                  /\ (t.kind = "recover" /\ t.token = "rtA" /\ n = 2) =>
                         currentUser'.id = "0xA"]_vars

\* Recovery refreshed the expired account "0xA".
C11_Witness ==
    /\ Len(emitted) = 3
    /\ emitted[1].event = TOKEN_REFRESHED
    /\ emitted[2].event = SIGNED_IN
    /\ emitted[3].event = INITIAL_STATE_LOADED
    /\ currentUser.id = "0xA"
    /\ currentSession.accessToken = "at2"

\* Phase 2 of recovery is still waiting for the store or for its refresh.
RecoveryPending ==
    \E t \in tasks : t.op = "recover" \/ (t.op = "refresh" /\ t.kind = "recover")

\* C12: with recovery enabled INITIAL_STATE_LOADED is broadcast exactly once per
\* instance, and not before phase 2 of recovery has completed.
C12_InitialStateLoadedOnce ==
    /\ initialLoads <= 1
    /\ RecoveryPending => initialLoads = 0
    /\ (phase = "Constructed" /\ recoverSessions /\ ~RecoveryPending) => initialLoads = 1

\* The constructor runs in this step.
Constructing == phase = "Uninitialized" /\ phase' = "Constructed"

\* C13: when the store is absent or holds {sessions: {}, activeAddress: ""}, neither
\* phase of recovery broadcasts SIGNED_IN, calls the transport or arms a timer:
\* construction leaves no session and no user, and phase 2 ends with loading off and
\* signed out (unless a sign-in was committed meanwhile and the store was absent).
C13_EmptyStoreEndsSignedOut ==
    [][/\ (Constructing /\ recoverSessions /\ store \in {NoItem, Stringify(EmptyStore)})
             => /\ currentSession'.isNull
                /\ currentUser' = NoUser
                /\ timers' = {}
                /\ emitted' = <<>>
       /\ \A t \in Resumed :
             (t.op = "recover" /\ (t.val.isNull \/ t.val.doc = EmptyStore))
             => /\ ~Has(emitted', SIGNED_IN)
                /\ ~Has(emitted', TOKEN_REFRESHED)
                /\ Has(emitted', INITIAL_STATE_LOADED)
                /\ tasks' = tasks \ {t}
                /\ ~loading'
                /\ timers' \subseteq timers
                /\ (currentSession.isNull \/ ~t.val.isNull)
                       => (currentSession'.isNull /\ currentUser' = NoUser)
                /\ ~t.val.isNull => (store' = NoItem /\ timers' = {})]_vars

\* Recovery has completed on an absent or empty store without any call of the host.
C13_Witness ==
    /\ phase = "Constructed"
    /\ recoverSessions
    /\ tasks = {}
    /\ stimuli = 0
    /\ ~loading
    /\ Len(emitted) = 1
    /\ emitted[1].event = INITIAL_STATE_LOADED
    /\ emitted[1].session.isNull
    /\ currentSession.isNull
    /\ timers = {}
    /\ store = NoItem

\* C14: when the constructor runs and the calls recovery awaits return, isLoading()
\* eventually becomes false, whatever the store held; a malformed item is read as an
\* absent one: both phases leave the session, the user, the timers and the item as
\* they are, and nothing escapes but the exception of a subscriber's callback.
C14_LoadingEventuallyFalse ==
    /\ <>(~loading)
    /\ [][/\ (Constructing /\ recoverSessions /\ store = Malformed)
                => /\ UNCHANGED <<currentSession, currentUser, timers, store, unhandled>>
                   /\ emitted' = <<>>
          /\ \A t \in Resumed :
                (t.op = "recover" /\ store = Malformed)
                => /\ ~loading'
                   /\ UNCHANGED <<currentSession, currentUser, timers, store>>
                   /\ unhandled' = (unhandled \/ Throws(stateChangeEmitters))]_vars

\* Recovery has completed on a malformed item.
C14_Witness ==
    /\ store = Malformed
    /\ phase = "Constructed"
    /\ ~RecoveryPending
    /\ ~loading
    /\ ~unhandled
    /\ Has(emitted, INITIAL_STATE_LOADED)

\* C15: the step of signOut that sends the revoke request has already cleared the
\* session and the user, erased the item and broadcast SIGNED_OUT showing no session;
\* the answer to the revoke request is returned without changing anything.
C15_SignOutIsOptimistic ==
    [][/\ Has(emitted', SIGNED_OUT)
             => /\ Len(emitted') = 1
                /\ Shows(emitted'[1], SIGNED_OUT, NoUser, NoSession)
                /\ currentSession' = NoSession
                /\ currentUser' = NoUser
                /\ store' = NoItem
                /\ timers' = {}
                /\ \A t \in tasks' \ tasks : t.op = "signOut"
       /\ \A t \in tasks' \ tasks : t.op = "signOut" => Has(emitted', SIGNED_OUT)
       /\ \A t \in Resumed :
             t.op = "signOut"
             => /\ ret'.op = "signOut"
                /\ ret'.error = ~ret'.ok
                /\ emitted' = <<>>
                /\ UNCHANGED <<currentSession, currentUser, timers, store, persisting>>]_vars

\* The revoke request failed and signOut returned its error; nothing was re-added.
C15_Witness ==
    /\ ret.op = "signOut"
    /\ ret.error
    /\ stateChangeEmitters = <<>>
    /\ ~unhandled
    /\ currentSession.isNull
    /\ store = NoItem

\* C16: signOut sends exactly one revoke request, with the access token of the session
\* that was current when it was invoked, if and only if that token is not empty.
C16_SignOutRevokesCapturedToken ==
    [][Has(emitted', SIGNED_OUT)
          => IF currentSession.accessToken # ""
             THEN tasks' \ tasks =
                      {Task("signOut", "", "", currentSession.accessToken, NoUser, NullVal)}
             ELSE tasks' = tasks]_vars

\* C17: when the last pending persist has written, the stored document names the
\* address of the most recently saved session as activeAddress and holds that session
\* as the one entry of its address.
C17_ActiveAddressIsLastSaved ==
    [][(persisting # <<>> /\ persisting' = <<>>)
          => /\ Head(persisting).session.user # NoUser
             /\ store'.kind = "json"
             /\ store'.doc.activeAddress = Head(persisting).session.user.id
             /\ store'.doc.sessions[Head(persisting).session.user.id]
                    = Head(persisting).session]_vars

\* C18: a refreshSession or setSession that returns in the calling step returns an
\* error, starts no transport call, broadcasts nothing and changes nothing; the
\* transport's refresh is started by refreshSession only with a current session that
\* has an access token and a refresh token, and by setSession only with a token.
C18_ValidationBeforeTransport ==
    [][/\ (stimuli' # stimuli /\ ret'.op \in {"refreshSession", "setSession"})
             => /\ ret'.error
                /\ ret'.session = NoSession
                /\ tasks' = tasks
                /\ emitted' = <<>>
                /\ UNCHANGED <<currentSession, currentUser, refreshTokenTimer, timers,
                               store, persisting>>
       /\ \A t \in tasks' \ tasks :
             (t.op = "refresh" /\ t.kind = "refreshSession")
             => /\ ~currentSession.isNull
                /\ currentSession.accessToken # ""
                /\ t.token # ""
                /\ t.token = currentSession.refreshToken
       /\ \A t \in tasks' \ tasks : t.op = "setSession" => t.token # ""]_vars

\* refreshSession was refused for a current session without access token.
C18_Witness ==
    /\ ret.op = "refreshSession"
    /\ ret.error
    /\ ~currentSession.isNull
    /\ currentSession.accessToken = ""
    /\ \A t \in tasks : t.op # "refresh"

\* C19: after a verify that succeeded, user() and session().user are the user of the
\* payload, also when the payload's session carried no user.
C19_VerifyBindsPayloadUser ==
    [][\A t \in Resumed :
          (t.op = "verify" /\ emitted' # <<>>)
          => /\ currentUser' = User(t.addr, 1)
             /\ currentSession'.user = User(t.addr, 1)]_vars

\* The active session of the stored document is one that phase 1 adopts.
Adoptable ==
    /\ syncStore
    /\ store.kind = "json"
    /\ ~ActiveSession(store.doc).isNull
    /\ ActiveSession(store.doc).expiresAt # 0
    /\ ActiveSession(store.doc).expiresAt >= TimeNow(nowMs)
    /\ ActiveSession(store.doc).user # NoUser

\* C20: the constructor adopts an adoptable active session, session() and user()
\* return it and, auto-refresh being enabled, the refresh timer is armed; in every
\* other case the constructor changes nothing and throws nothing.
C20_PhaseOneAdoptsAndArms ==
    [][(Constructing /\ recoverSessions)
          => IF Adoptable
             THEN /\ currentSession' = ActiveSession(store.doc)
                  /\ currentUser' = ActiveSession(store.doc).user
                  /\ autoRefreshToken => \E tm \in timers' : tm.id = refreshTokenTimer'
             ELSE /\ UNCHANGED <<currentSession, currentUser, refreshTokenTimer, timers,
                                 store, persisting, unhandled>>
                  /\ emitted' = <<>>]_vars

\* What phase 1 does guarantee: adoption at the constructor's return, a timer only for
\* a session with at least 1 s to live, and no change in every other case.
PhaseOneAdoptsOrChangesNothing ==
    [][(Constructing /\ recoverSessions)
          => IF Adoptable
             THEN /\ currentSession' = ActiveSession(store.doc)
                  /\ currentUser' = ActiveSession(store.doc).user
                  /\ ~loading'
                  /\ Has(emitted', SIGNED_IN)
                  /\ ~unhandled'
                  /\ (autoRefreshToken /\ SavedExpiresIn >= 1)
                         => /\ timers' # {}
                            /\ \A tm \in timers' :
                                   /\ tm.id = refreshTokenTimer'
                                   /\ tm.fireAt > nowMs
                                   /\ tm.fireAt < currentSession'.expiresAt * 1000
                  /\ (~autoRefreshToken \/ SavedExpiresIn < 1) => timers' = {}
             ELSE /\ UNCHANGED <<currentSession, currentUser, refreshTokenTimer, timers,
                                 store, persisting, unhandled>>
                  /\ emitted' = <<>>]_vars

\* The identifiers registered in a registry.
Ids(subs) == {subs[j].id : j \in 1..Len(subs)}

C22_BroadcastReachesEverySubscriber ==
    [][\A k \in 1..Len(emitted') :
          /\ emitted'[k].callbacks =
                 [j \in 1..Len(stateChangeEmitters) |-> stateChangeEmitters[j].id]
          /\ emitted'[k].event = SIGNED_OUT
                 => emitted'[k].session.isNull /\ emitted'[k].user = NoUser
          /\ emitted'[k].event \in {SIGNED_IN, TOKEN_REFRESHED}
                 => /\ ~emitted'[k].session.isNull
                    /\ emitted'[k].user = emitted'[k].session.user]_vars

\* The part of C22 that does not depend on how many callbacks run.
BroadcastHandsOverCurrentUser ==
    [][\A k \in 1..Len(emitted') :
          /\ emitted'[k].event = SIGNED_OUT
                 => emitted'[k].session.isNull /\ emitted'[k].user = NoUser
          /\ emitted'[k].event \in {SIGNED_IN, TOKEN_REFRESHED}
                 => /\ ~emitted'[k].session.isNull
                    /\ emitted'[k].user = emitted'[k].session.user
          /\ ~Throws(stateChangeEmitters)
                 => emitted'[k].callbacks =
                        [j \in 1..Len(stateChangeEmitters) |-> stateChangeEmitters[j].id]]_vars

\* C23: at most one timeout of the scheduler is pending and it is the one the manager
\* holds the handle of; a step that saves a session or removes the sessions leaves no
\* timeout pending that was armed before it.
C23_AtMostOneTimer ==
    [][/\ Cardinality(timers') <= 1
       /\ \A tm \in timers' : tm.id = refreshTokenTimer'
       /\ (SavedSession \/ (~currentSession.isNull /\ currentSession'.isNull))
             => timers \cap timers' = {}]_vars

\* The part of C23 that is a state invariant: at most one timeout is pending, and it
\* is the one the manager holds the handle of.
AtMostOneTimerPending ==
    /\ Cardinality(timers) <= 1
    /\ \A tm \in timers : tm.id = refreshTokenTimer

\* C24: the answer to a verify or refresh is applied whatever happened since the call
\* was started, a signOut or a switch included: a verify that returns success has saved
\* the session of its address, and a refresh that broadcasts has saved the session of
\* its token; in both cases the session is current after the step, SIGNED_IN was
\* broadcast with it, and the timer is armed for it when it has at least 1 s to live.
C24_LateResultIsApplied ==
    [][\A t \in Resumed :
          ((t.op = "verify" /\ ~ret'.error) \/ (t.op = "refresh" /\ emitted' # <<>>))
          => /\ ~currentSession'.isNull
             /\ currentSession'.refreshToken =
                    (IF t.op = "verify" THEN RefreshTokenOf(t.addr) ELSE t.token)
             /\ Has(emitted', SIGNED_IN)
             /\ emitted'[Len(emitted')].session = currentSession'
             /\ ~signedOut'
             /\ (currentSession'.expiresAt # 0 /\ SavedExpiresIn >= 1)
                    => /\ timers' # {}
                       /\ \A tm \in timers' : tm.id = refreshTokenTimer' /\ tm.fireAt > nowMs]_vars

\* The scheduled refresh of "0xA" was in flight when signOut ran; signOut has completed,
\* the store is erased, and the refreshed session of "0xA" is current again.
C24_Witness ==
    /\ currentSession.accessToken = "at2"
    /\ currentUser.id = "0xA"
    /\ store = NoItem
    /\ timers # {}
    /\ \A t \in tasks : t.op # "signOut"

\* Nothing is left of the sessions: no session, no user, no item, no timer.
Removed ==
    /\ currentSession'.isNull
    /\ currentUser' = NoUser
    /\ store' = NoItem
    /\ timers' = {}

\* The active session of the item that phase 2 read is expired when phase 2 resumes.
ExpiredAtRecovery(t) ==
    /\ ~t.val.isNull
    /\ ActiveSession(t.val.doc).expiresAt # 0
    /\ ActiveSession(t.val.doc).expiresAt < TimeNow(nowMs)

CanRefreshAtRecovery(t) == autoRefreshToken /\ ActiveSession(t.val.doc).refreshToken # ""

\* What phase 2 does with an expired active session in the step in which it decides:
\* it starts one refresh with the session's token and touches nothing, or it removes
\* everything without a transport call; and when the refresh it awaited has failed, it
\* removes everything.
ExpiredRecoveryRemovesAtOnce ==
    [][\A t \in Resumed :
          /\ (t.op = "recover" /\ ExpiredAtRecovery(t) /\ CanRefreshAtRecovery(t))
                => /\ tasks' \ tasks =
                          {Task("refresh", "recover", "", ActiveSession(t.val.doc).refreshToken,
                                ActiveSession(t.val.doc).user, NullVal)}
                   /\ emitted' = <<>>
                   /\ UNCHANGED <<currentSession, currentUser, store, timers, persisting>>
          /\ (t.op = "recover" /\ ExpiredAtRecovery(t) /\ ~CanRefreshAtRecovery(t))
                => /\ tasks' \ tasks = {}
                   /\ Removed
                   /\ ~Has(emitted', SIGNED_IN)
          /\ (t.op = "refresh" /\ t.kind = "recover" /\ ~Has(emitted', SIGNED_IN))
                => Removed /\ tasks' \ tasks = {}]_vars

\* C25: phase 2 refreshes an expired active session when it can and removes all sessions
\* when it cannot or when the refresh fails; after a removal session() and user() are
\* none, no timer is armed, and the store entry is erased and stays erased.
C25_ExpiredRecoveryRemoves ==
    [][/\ \A t \in Resumed :
             /\ (t.op = "recover" /\ ExpiredAtRecovery(t) /\ CanRefreshAtRecovery(t))
                   => \E n \in tasks' \ tasks : n.op = "refresh" /\ n.kind = "recover"
             /\ (t.op = "recover" /\ ExpiredAtRecovery(t) /\ ~CanRefreshAtRecovery(t))
                   => tasks' \ tasks = {} /\ Removed
             /\ (t.op = "refresh" /\ t.kind = "recover" /\ ~Has(emitted', SIGNED_IN))
                   => Removed
       /\ (currentSession.isNull /\ store = NoItem /\ persisting # <<>>)
             => store' = NoItem]_vars

\* The stored document names an active address whose entry is missing, or lacks
\* expiresAt or the user.
Corrupt(doc) ==
    /\ doc.activeAddress # ""
    /\ \/ doc.sessions[doc.activeAddress].isNull
       \/ doc.sessions[doc.activeAddress].expiresAt = 0
       \/ doc.sessions[doc.activeAddress].user = NoUser

\* C26: when phase 2 resumes with a document whose active entry is missing or
\* incomplete, it removes all sessions, the valid ones of other addresses included,
\* starts no transport call, broadcasts no SIGNED_IN and raises no error.
C26_CorruptRecoveryRemoves ==
    [][\A t \in Resumed :
          (t.op = "recover" /\ ~t.val.isNull /\ Corrupt(t.val.doc))
          => /\ Removed
             /\ tasks' \ tasks = {}
             /\ ~Has(emitted', SIGNED_IN)
             /\ ~loading'
             /\ unhandled' = unhandled]_vars

\* C26 without the session that is expired as well as incomplete, and without
\* subscribers whose callback throws.
CorruptUnexpiredRecoveryRemoves ==
    [][\A t \in Resumed :
          (/\ t.op = "recover" /\ ~t.val.isNull /\ Corrupt(t.val.doc)
           /\ ~ExpiredAtRecovery(t)
           /\ ~Throws(stateChangeEmitters))
          => /\ Removed
             /\ tasks' \ tasks = {}
             /\ ~Has(emitted', SIGNED_IN)
             /\ ~loading'
             /\ unhandled' = unhandled]_vars

\* Phase 2 resumes task t and adopts the session that phase 1 adopted and that is still
\* current, the item being the one both phases read.
BothPhasesAdopt(t) ==
    /\ t.op = "recover"
    /\ ~t.val.isNull
    /\ ~currentSession.isNull
    /\ currentSession = ActiveSession(t.val.doc)
    /\ store = Stringify(t.val.doc)
    /\ Has(emitted', SIGNED_IN)

\* C27 as stated: phase 2 runs after the constructor's phase 1, and after both phases
\* adopted the same session there are the same session and user, exactly one armed
\* timer, and a persisted document with that address as activeAddress and one entry
\* for it.
C27_ReadoptionLeavesOneTimer ==
    [][\A t \in Resumed :
          /\ t.op = "recover" => phase = "Constructed"
          /\ BothPhasesAdopt(t)
                => /\ currentSession' = currentSession
                   /\ currentUser' = currentUser
                   /\ Cardinality(timers') = 1
                   /\ store' = store]_vars

\* C27 amended: the second adoption leaves what a single adoption leaves: the same
\* session and user, the one timer a save arms at that moment and no other (none with
\* auto-refresh disabled or in the last second of the session), the item unchanged, and
\* a pending persist whose write leaves the item unchanged too.
C27_ReadoptionIsIdempotent ==
    [][\A t \in Resumed :
          /\ t.op = "recover" => phase = "Constructed"
          /\ BothPhasesAdopt(t)
                => /\ currentSession' = currentSession
                   /\ currentUser' = currentUser
                   /\ Cardinality(timers') <= 1
                   /\ (timers' = {}) <=> (~autoRefreshToken \/ SavedExpiresIn < 1)
                   /\ \A tm \in timers' :
                          /\ tm.id = refreshTokenTimer'
                          /\ tm.fireAt = nowMs + RefreshDelayMs(SavedExpiresIn)
                   /\ store' = store
                   /\ store.doc.activeAddress = currentSession.user.id
                   /\ persistSessions
                          => /\ persisting' # <<>>
                             /\ _persistSessions(persisting'[Len(persisting')], store) = store]_vars

\* Phase 2 has adopted the session of "0xA" again and replaced the timer of phase 1.
C27_Witness ==
    /\ currentSession = Unexpired("0xA")
    /\ refreshTokenTimer = 2
    /\ Cardinality(timers) = 1
    /\ Len(emitted) = 2
    /\ emitted[1].event = SIGNED_IN
    /\ \A t \in tasks : t.op # "recover"

\* C28: a persist whose setItem rejects ends without an exception or rejection
\* reaching the host, and leaves the in-memory session as the save defined it.
C28_StorageFailureNeverEscapes ==
    [][(/\ setItemFails
        /\ persisting # <<>>
        /\ persisting' = Tail(persisting)
        /\ Head(persisting).session.user # NoUser)
          => /\ unhandled' = unhandled
             /\ UNCHANGED <<currentSession, currentUser, timers>>]_vars

\* C29: currentUser is the user bound to currentSession, and none when there is no
\* current session.
C29_UserMirrorsSession ==
    /\ currentUser = currentSession.user
    /\ currentSession.isNull => currentUser = NoUser

\* A refresh has committed the transport's session with the user that was current when
\* it started bound to it: session and user changed together.
C29_Witness ==
    /\ currentSession.accessToken = "at2"
    /\ currentSession.user = User("0xA", 1)
    /\ currentUser = User("0xA", 1)

\* C30: a refresh is sent to the transport only with a refresh token, and a refresh
\* that answers without a user commits nothing and broadcasts nothing, so the session
\* a refresh has broadcast always carries a user.
C30_RefreshFailsWithoutTokenOrUser ==
    [][/\ \A t \in tasks' \ tasks : t.op = "refresh" => t.token # ""
       /\ \A t \in Resumed :
             (t.op = "refresh" /\ Has(emitted', TOKEN_REFRESHED))
             => /\ emitted'[1].session.user # NoUser
                /\ emitted'[1].user # NoUser]_vars

\* C30 for the refresh of the scheduler, of a switch and of recovery.
InternalRefreshFailsWithoutTokenOrUser ==
    [][/\ \A t \in tasks' \ tasks : t.op = "refresh" => t.token # ""
       /\ \A t \in Resumed :
             (t.op = "refresh" /\ t.kind # "refreshSession" /\ Has(emitted', TOKEN_REFRESHED))
             => /\ emitted'[1].session.user # NoUser
                /\ emitted'[1].user # NoUser]_vars

\* C31: a refresh that succeeds commits the user override when one was supplied,
\* otherwise the user that was current when the refresh was started, and the user the
\* transport returned only when there was none; the scheduled callback starts its
\* refresh with the refresh token and the user current when the timer fires.
C31_RefreshCommitsKnownUser ==
    [][/\ \A t \in Resumed :
             (t.op = "refresh" /\ Has(emitted', TOKEN_REFRESHED))
             => emitted'[1].session.user =
                    IF t.user # NoUser THEN t.user
                    ELSE IF t.current # NoUser THEN t.current
                    ELSE User(AddressOf(t.token), 2)
       /\ \A t \in tasks' \ tasks :
             t.kind = "timer" => /\ t.token = currentSession.refreshToken
                                 /\ t.user = currentUser]_vars

\* C31 for the refreshes of the scheduler, of a switch and of recovery.
InternalRefreshCommitsKnownUser ==
    [][/\ \A t \in Resumed :
             (t.op = "refresh" /\ t.kind # "refreshSession" /\ Has(emitted', TOKEN_REFRESHED))
             => emitted'[1].session.user =
                    IF t.user # NoUser THEN t.user
                    ELSE IF t.current # NoUser THEN t.current
                    ELSE User(AddressOf(t.token), 2)
       /\ \A t \in tasks' \ tasks :
             t.kind = "timer" => /\ t.token = currentSession.refreshToken
                                 /\ t.user = currentUser]_vars

\* The step is the continuation of the oldest pending _persistSessions call.
Persisted == persisting # <<>> /\ persisting' = Tail(persisting)

\* C32: a save of a session without user completes, and neither the save nor the
\* persist it started raises an exception or an unhandled rejection.
C32_UserlessSaveDoesNotFail ==
    [][/\ (SavedSession /\ currentSession'.user = NoUser) => unhandled' = unhandled
       /\ (Persisted /\ Head(persisting).session.user = NoUser /\ ~setItemFails)
             => unhandled' = unhandled]_vars

\* C32 for the synchronous part: the save of a session without user makes it the
\* current one, arms the timer as for any session and raises nothing.
UserlessSaveCompletes ==
    [][(SavedSession /\ currentSession'.user = NoUser)
          => /\ unhandled' = unhandled
             /\ currentUser' = NoUser
             /\ ~loading'
             /\ (autoRefreshToken /\ SavedExpiresIn >= 1) => Cardinality(timers') = 1
             /\ persistSessions => /\ persisting' # <<>>
                                   /\ persisting'[Len(persisting')].session = currentSession']_vars

\* The step wrote the session of the oldest pending _persistSessions call, which had
\* read a document, to a store that holds a document.
Wrote ==
    /\ Persisted
    /\ Head(persisting).session.user # NoUser
    /\ ~setItemFails
    /\ ~Head(persisting).val.isNull
    /\ store.kind = "json"

\* C33: the write of a save leaves the persisted entry of every other address as it
\* was, also when another save wrote between the read and the write of this one.
C33_PersistKeepsOtherEntries ==
    [][Wrote => \A a \in Addresses \ {Head(persisting).session.user.id} :
                    store'.doc.sessions[a] = store.doc.sessions[a]]_vars

\* C33 when nothing was written between the read and the write of the save: the
\* document written is the one read, with the entry of the saved address replaced and
\* that address made the active one.
PersistMergesIntoWhatItRead ==
    [][(Wrote /\ Head(persisting).val = _parseStorageJSON(store))
          => LET session == Head(persisting).session
             IN  /\ store'.kind = "json"
                 /\ store'.doc.activeAddress = session.user.id
                 /\ store'.doc.sessions[session.user.id] = session
                 /\ \A a \in Addresses \ {session.user.id} :
                        store'.doc.sessions[a] = store.doc.sessions[a]]_vars

\* A stored session that has its expiry and its user.
Complete(session) ==
    /\ ~session.isNull
    /\ session.expiresAt # 0
    /\ session.user # NoUser

\* C34: the constructor, phase 2 of recovery and switchToInactiveSession take a complete
\* stored session for expired exactly when the current time, in seconds, is greater
\* than its expiresAt: each of them adopts the session up to and including the second
\* of its expiry, and refreshes, removes or refuses it afterwards.
C34_ExpiryClassifiedAlike ==
    [][/\ Constructing =>
             LET val == _getFromStorageSync(store, syncStore)
                 session == ActiveSession(val.doc)
             IN  (recoverSessions /\ ~val.isNull /\ Complete(session))
                 => IF TimeNow(nowMs) > session.expiresAt
                    THEN currentSession'.isNull /\ emitted' = <<>>
                    ELSE currentSession' = session /\ Has(emitted', SIGNED_IN)
       /\ \A t \in Resumed :
             (t.op = "recover" /\ ~t.val.isNull /\ Complete(ActiveSession(t.val.doc)))
             => LET session == ActiveSession(t.val.doc)
                IN  IF TimeNow(nowMs) > session.expiresAt
                    THEN /\ ~Has(emitted', SIGNED_IN)
                         /\ \/ \E r \in tasks' \ tasks :
                                  r.kind = "recover" /\ r.token = session.refreshToken
                            \/ currentSession'.isNull /\ store' = NoItem
                    ELSE currentSession' = session /\ Has(emitted', SIGNED_IN)
       /\ \A t \in Resumed :
             (t.op = "switch" /\ ~t.val.isNull /\ Complete(t.val.doc.sessions[t.addr]))
             => LET session == t.val.doc.sessions[t.addr]
                IN  IF TimeNow(nowMs) > session.expiresAt
                    THEN /\ emitted' = <<>>
                         /\ UNCHANGED <<currentSession, currentUser>>
                    ELSE /\ currentSession' = session
                         /\ Has(emitted', SIGNED_IN)]_vars

\* A switch has adopted the session of "0xB" in the second of its expiry.
C34_Witness ==
    /\ ret = SwitchRet(TRUE)
    /\ Has(emitted, SIGNED_IN)
    /\ currentUser.id = "0xB"
    /\ currentSession.expiresAt = TimeNow(nowMs)

\* The step is a call of signOut(): it returned at once or suspended on the revoke call.
SignOutCalled ==
    /\ stimuli' # stimuli
    /\ \/ ret'.op = "signOut"
       \/ \E t \in tasks' \ tasks : t.op = "signOut"

\* C35: a call of signOut broadcasts SIGNED_OUT once and nothing else, whether or not a
\* session was active, and no other step broadcasts SIGNED_OUT, in particular none of
\* the steps in which recovery or a switch removes the current session.
C35_SignedOutOnlyBySignOut ==
    [][/\ SignOutCalled => /\ Len(emitted') = 1
                           /\ emitted'[1].event = SIGNED_OUT
       /\ Has(emitted', SIGNED_OUT) => SignOutCalled
       /\ \A t \in Resumed :
             (t.op \in {"recover", "refresh", "switch"} /\ currentSession'.isNull)
             => ~Has(emitted', SIGNED_OUT)]_vars

\* signOut was called when nobody was signed in, and broadcast SIGNED_OUT.
C35_Witness ==
    /\ ret = Ret("signOut", FALSE, TRUE, NoSession, NoUser, FALSE)
    /\ Len(emitted) = 1
    /\ emitted[1].event = SIGNED_OUT
    /\ tasks = {}
    /\ store = NoItem

\* The step ends phase 2 of recovery: _recoverAndRefresh resumed, from its read or
\* from its refresh, and ran to its end.
RecoveryFinished ==
    /\ \E t \in Resumed : t.op = "recover" \/ (t.op = "refresh" /\ t.kind = "recover")
    /\ Has(emitted', INITIAL_STATE_LOADED)

\* C36: a session that verify committed for "0xB" while phase 2 of recovery was
\* waiting (every stored active session belongs to "0xA") is still the current one
\* when phase 2 has finished.
C36_SignInSurvivesRecovery ==
    [][(RecoveryFinished /\ currentSession.refreshToken = "rtB")
          => /\ currentSession' = currentSession
             /\ currentUser' = currentUser]_vars

\* C37: while a refresh timer is pending, auto-refresh is enabled and there is a
\* current session that has an expiresAt.
C37_TimerImpliesExpiringSession ==
    timers # {} => /\ autoRefreshToken
                   /\ ~currentSession.isNull
                   /\ currentSession.expiresAt # 0

\* C37 without the expiry: while a refresh timer is pending, auto-refresh is enabled
\* and there is a current session.
TimerImpliesSession ==
    timers # {} => /\ autoRefreshToken
                   /\ ~currentSession.isNull

\* The step is the scheduled callback: a due timer is gone and nothing else happened
\* but, possibly, the start of its refresh.
TimerFired ==
    /\ \E tm \in timers : tm \notin timers' /\ nowMs >= tm.fireAt
    /\ Resumed = {}
    /\ stimuli' = stimuli
    /\ emitted' = <<>>
    /\ UNCHANGED <<currentSession, refreshTokenTimer, persisting, store>>

\* The scheduled callback never runs while there is no session.
TimerNeverFiresSignedOut == [][TimerFired => ~currentSession.isNull]_vars

====
